---- MODULE Spec2Model ----
(***************************************************************************)
(* A model of the chromatic colour tool: the Color value type of           *)
(* src/color.rs (duplicated in src/main.rs), its constructors and          *)
(* accessors, the two complement functions, and the command-line entry     *)
(* point of src/main.rs.                                                   *)
(*                                                                         *)
(* f32 values are modelled exactly: a finite binary32 number is a record   *)
(* [neg, m, e] of value (-1)^neg * m * 2^e with m = 0 (zero) or            *)
(* 2^23 <= m < 2^24, and every arithmetic operation rounds to nearest,     *)
(* ties to even, as the hardware does.  NaN, infinities and subnormals do  *)
(* not arise from the inputs the model draws.                              *)
(***************************************************************************)
EXTENDS Integers, Sequences, FiniteSets, TLC

(***************************************************************************)
(* Bounds of the model.                                                    *)
(***************************************************************************)
\* channel values are sampled at i*255/ChanLevels, i in 0..ChanLevels
ChanLevels == 15
\* saturation and value inputs are sampled at n/UnitDen, n in 0..UnitDen
UnitDen == 8
\* hue inputs are sampled every HueStep degrees from -HueStep to 360+HueStep
HueStep == 15
\* a hex input is the concatenation of at most MaxChunks chunks
MaxChunks == 4
\* the library specification applies at most MaxOps functions in a row
MaxOps == 2

(***************************************************************************)
(* IEEE 754 binary32 arithmetic.                                           *)
(***************************************************************************)
\* Call by value: Rust evaluates an argument once, before the call, and a
\* `let` once.  An operator below that is CHOOSE r \in {F(x) : x \in {a}} : TRUE
\* is F applied to the value of a.
F32Zero == [neg |-> FALSE, m |-> 0, e |-> 0]

\* number of significant bits of n, 0 <= n < 2^31
BitLen(n) ==
    IF n = 0 THEN 0
    ELSE CHOOSE k \in 1..31 : n >= 2^(k-1) /\ (k = 31 \/ n < 2^k)

\* the binary32 nearest to (-1)^neg * (n + f) * 2^e, where 0 <= f < 1 and
\* f > 0 iff sticky; when sticky, n has at least 26 significant bits
RoundNearestEven(neg, n, e, sticky) ==
    LET len == BitLen(n) IN
    IF n = 0 THEN F32Zero
    ELSE IF len <= 24
    THEN [neg |-> neg, m |-> n * 2^(24 - len), e |-> e - (24 - len)]
    ELSE LET k == len - 24
             q == n \div 2^k
             rem == n % 2^k
             half == 2^(k-1)
             up == rem > half \/ (rem = half /\ (sticky \/ q % 2 = 1))
             q1 == IF up THEN q + 1 ELSE q
         IN IF q1 = 2^24
            THEN [neg |-> neg, m |-> 2^23, e |-> e + k + 1]
            ELSE [neg |-> neg, m |-> q1, e |-> e + k]

F32Round(neg, n, e, sticky) ==
    CHOOSE r \in {RoundNearestEven(arg1, arg2, arg3, arg4) :
                    arg1 \in {neg}, arg2 \in {n}, arg3 \in {e}, arg4 \in {sticky}} : TRUE

\* `n as f32` for an integer that binary32 represents exactly
F32FromInt(n) ==
    IF n < 0 THEN F32Round(TRUE, -n, 0, FALSE) ELSE F32Round(FALSE, n, 0, FALSE)

NegValue(a) == IF a.m = 0 THEN a ELSE [a EXCEPT !.neg = ~a.neg]

F32Neg(a) ==
    CHOOSE r \in {NegValue(arg1) : arg1 \in {a}} : TRUE

\* f32::abs
AbsValue(a) == [a EXCEPT !.neg = FALSE]

F32Abs(a) ==
    CHOOSE r \in {AbsValue(arg1) : arg1 \in {a}} : TRUE

\* |a| < |b|
F32MagLt(a, b) ==
    IF b.m = 0 THEN FALSE
    ELSE IF a.m = 0 THEN TRUE
    ELSE a.e < b.e \/ (a.e = b.e /\ a.m < b.m)

EqValues(a, b) == (a.m = 0 /\ b.m = 0) \/ a = b

F32Eq(a, b) ==
    CHOOSE r \in {EqValues(arg1, arg2) : arg1 \in {a}, arg2 \in {b}} : TRUE

LtValues(a, b) ==
    IF a.neg /\ ~b.neg THEN ~(a.m = 0 /\ b.m = 0)
    ELSE IF ~a.neg /\ b.neg THEN FALSE
    ELSE IF a.neg THEN F32MagLt(b, a)
    ELSE F32MagLt(a, b)

F32Lt(a, b) ==
    CHOOSE r \in {LtValues(arg1, arg2) : arg1 \in {a}, arg2 \in {b}} : TRUE

F32Le(a, b) == F32Lt(a, b) \/ F32Eq(a, b)

\* f32::max, f32::min
F32Max(a, b) == IF F32Lt(a, b) THEN b ELSE a
F32Min(a, b) == IF F32Lt(b, a) THEN b ELSE a

\* a * b: the 48-bit product of the significands from 12-bit limbs
MulExact(a, b) ==
    IF a.m = 0 \/ b.m = 0 THEN F32Zero
    ELSE LET a1 == a.m \div 4096
             a0 == a.m % 4096
             b1 == b.m \div 4096
             b0 == b.m % 4096
             lo == a0 * b0
             mid == a1 * b0 + a0 * b1 + (lo \div 4096)
             H == a1 * b1 + (mid \div 4096)
             L == (mid % 4096) * 4096 + (lo % 4096)
         IN F32Round(a.neg # b.neg, H * 64 + (L \div 262144),
                     a.e + b.e + 18, L % 262144 # 0)

F32Mul(a, b) ==
    CHOOSE r \in {MulExact(arg1, arg2) : arg1 \in {a}, arg2 \in {b}} : TRUE

\* a / b, b nonzero: 28 quotient bits by long division, 7 bits a step
DivExact(a, b) ==
    IF a.m = 0 THEN F32Zero
    ELSE LET q0 == a.m \div b.m
             r0 == a.m % b.m
             q1 == q0 * 128 + ((r0 * 128) \div b.m)
             r1 == (r0 * 128) % b.m
             q2 == q1 * 128 + ((r1 * 128) \div b.m)
             r2 == (r1 * 128) % b.m
             q3 == q2 * 128 + ((r2 * 128) \div b.m)
             r3 == (r2 * 128) % b.m
             q4 == q3 * 128 + ((r3 * 128) \div b.m)
             r4 == (r3 * 128) % b.m
         IN F32Round(a.neg # b.neg, q4, a.e - b.e - 28, r4 # 0)

F32Div(a, b) ==
    CHOOSE r \in {DivExact(arg1, arg2) : arg1 \in {a}, arg2 \in {b}} : TRUE

\* a + b with |a| >= |b|, both nonzero
F32AddOrdered(a, b) ==
    LET d == a.e - b.e IN
    IF d <= 6
    THEN LET A == a.m * 2^d
             n == IF a.neg = b.neg THEN A + b.m ELSE A - b.m
         IN F32Round(a.neg, n, b.e, FALSE)
    ELSE LET A == a.m * 64
             sh == d - 6
             B == IF sh >= 24 THEN 0 ELSE b.m \div 2^sh
             st == IF sh >= 24 THEN TRUE ELSE b.m % 2^sh # 0
             n == IF a.neg = b.neg THEN A + B
                  ELSE A - B - (IF st THEN 1 ELSE 0)
         IN F32Round(a.neg, n, a.e - 6, st)

AddExact(a, b) ==
    IF a.m = 0 THEN b
    ELSE IF b.m = 0 THEN a
    ELSE IF F32MagLt(a, b) THEN F32AddOrdered(b, a)
    ELSE F32AddOrdered(a, b)

F32Add(a, b) ==
    CHOOSE r \in {AddExact(arg1, arg2) : arg1 \in {a}, arg2 \in {b}} : TRUE

F32Sub(a, b) == F32Add(a, F32Neg(b))

\* a % b on f32 (the C fmod): exact, with the sign of a; here a.e - b.e <= 7
RemExact(a, b) ==
    IF F32MagLt(a, b) THEN a
    ELSE LET r == (a.m * 2^(a.e - b.e)) % b.m
         IN F32Round(a.neg, r, b.e, FALSE)

F32Rem(a, b) ==
    CHOOSE r \in {RemExact(arg1, arg2) : arg1 \in {a}, arg2 \in {b}} : TRUE

\* f32::round (half away from zero), as an integer; |a| < 2^31
RoundHalfAway(a) ==
    LET mag == IF a.m = 0 THEN 0
               ELSE IF a.e >= 0 THEN a.m * 2^a.e
               ELSE IF -a.e > 24 THEN 0
               ELSE LET k == -a.e
                        q == a.m \div 2^k
                        rem == a.m % 2^k
                    IN IF 2 * rem >= 2^k THEN q + 1 ELSE q
    IN IF a.neg THEN -mag ELSE mag

F32RoundInt(a) ==
    CHOOSE r \in {RoundHalfAway(arg1) : arg1 \in {a}} : TRUE

\* the binary32 nearest to n/d: what f32::from_str gives for its decimal
F32Of(n, d) == F32Div(F32FromInt(n), F32FromInt(d))


(***************************************************************************)
(* The f32 literals of the source.                                         *)
(***************************************************************************)
F0 == F32Zero
F1 == F32FromInt(1)
F2 == F32FromInt(2)
F4 == F32FromInt(4)
F6 == F32FromInt(6)
F60 == F32FromInt(60)
F120 == F32FromInt(120)
F180 == F32FromInt(180)
F240 == F32FromInt(240)
F300 == F32FromInt(300)
F360 == F32FromInt(360)
F255 == F32FromInt(255)

\* the largest u8, the minuend of rgb_complement
U8Max == 255

\* `x as u8` for an integer-valued float x: the cast saturates
AsU8(x) == IF x < 0 THEN 0 ELSE IF x > U8Max THEN U8Max ELSE x

(***************************************************************************)
(* Color and its constructors.                                             *)
(***************************************************************************)
from_rgb(r, g, b) == [r |-> r, g |-> g, b |-> b]

\* from_hsv: let c = v * s
HsvChroma(s, v) == F32Mul(v, s)

\* from_hsv: let x = c * (1.0 - ((h / 60.0) % 2.0 - 1.0).abs())
HsvSecondary(h, c) ==
    F32Mul(c, F32Sub(F1, F32Abs(F32Sub(F32Rem(F32Div(h, F60), F2), F1))))

\* (mutant of HsvMatch: the chroma added instead of subtracted)
HsvMatchPlus(v, c) == F32Add(v, c)

\* from_hsv: let m = v - c
HsvMatch(v, c) == F32Sub(v, c)

\* (mutant of Sextant: the hue reduced modulo 360 before the match)
SextantNormalised(h) ==
    LET w == F32Rem(h, F360) IN
    IF F32Le(F0, w) /\ F32Le(w, F60) THEN 1
    ELSE IF F32Le(F60, w) /\ F32Le(w, F120) THEN 2
    ELSE IF F32Le(F120, w) /\ F32Le(w, F180) THEN 3
    ELSE IF F32Le(F180, w) /\ F32Le(w, F240) THEN 4
    ELSE IF F32Le(F240, w) /\ F32Le(w, F300) THEN 5
    ELSE IF F32Le(F300, w) /\ F32Le(w, F360) THEN 6
    ELSE 0

\* (mutant of Sextant: half-open ranges lo..hi in place of lo..=hi)
SextantHalfOpen(h) ==
    IF F32Le(F0, h) /\ F32Lt(h, F60) THEN 1
    ELSE IF F32Le(F60, h) /\ F32Lt(h, F120) THEN 2
    ELSE IF F32Le(F120, h) /\ F32Lt(h, F180) THEN 3
    ELSE IF F32Le(F180, h) /\ F32Lt(h, F240) THEN 4
    ELSE IF F32Le(F240, h) /\ F32Lt(h, F300) THEN 5
    ELSE IF F32Le(F300, h) /\ F32Lt(h, F360) THEN 6
    ELSE 0

\* from_hsv: the arm of `match h` taken, the first whose inclusive range
\* holds h; 0 is the wildcard arm
Sextant(h) ==
    IF F32Le(F0, h) /\ F32Le(h, F60) THEN 1
    ELSE IF F32Le(F60, h) /\ F32Le(h, F120) THEN 2
    ELSE IF F32Le(F120, h) /\ F32Le(h, F180) THEN 3
    ELSE IF F32Le(F180, h) /\ F32Le(h, F240) THEN 4
    ELSE IF F32Le(F240, h) /\ F32Le(h, F300) THEN 5
    ELSE IF F32Le(F300, h) /\ F32Le(h, F360) THEN 6
    ELSE 0

\* from_hsv: (r_prime, g_prime, b_prime)
HsvArm(k, c, x) ==
    IF k = 1 THEN <<c, x, F0>>
    ELSE IF k = 2 THEN <<x, c, F0>>
    ELSE IF k = 3 THEN <<F0, c, x>>
    ELSE IF k = 4 THEN <<F0, x, c>>
    ELSE IF k = 5 THEN <<x, F0, c>>
    ELSE IF k = 6 THEN <<c, F0, x>>
    ELSE <<F0, F0, F0>>

HsvPrimes(h, c, x) ==
    CHOOSE r \in {HsvArm(arg1, arg2, arg3) :
                    arg1 \in {Sextant(h)}, arg2 \in {c}, arg3 \in {x}} : TRUE

\* from_hsv: ((p + m) * 255.0).round(), the value before the cast
HsvChannel(p, m) == F32RoundInt(F32Mul(F32Add(p, m), F255))

\* from_hsv: the three rounded values before `as u8`
HsvRounded(h, s, v) ==
    LET c == HsvChroma(s, v)
        x == HsvSecondary(h, c)
        m == HsvMatch(v, c)
        p == HsvPrimes(h, c, x)
    IN <<HsvChannel(p[1], m), HsvChannel(p[2], m), HsvChannel(p[3], m)>>

from_hsv_rounded(h, s, v) ==
    CHOOSE r \in {HsvRounded(arg1, arg2, arg3) :
                    arg1 \in {h}, arg2 \in {s}, arg3 \in {v}} : TRUE

\* from_hsv: the casts `as u8` and Self { r, g, b }
CastChannels(t) == [r |-> AsU8(t[1]), g |-> AsU8(t[2]), b |-> AsU8(t[3])]

from_hsv(h, s, v) ==
    CHOOSE r \in {CastChannels(arg1) : arg1 \in {from_hsv_rounded(h, s, v)}} : TRUE

(***************************************************************************)
(* Accessors.                                                              *)
(***************************************************************************)
\* to_hsv: the hue before .abs()
HsvHue(r, g, b, max, delta) ==
    IF F32Eq(delta, F0) THEN F0
    ELSE IF F32Eq(max, r)
    THEN F32Mul(F60, F32Rem(F32Div(F32Sub(g, b), delta), F6))
    ELSE IF F32Eq(max, g)
    THEN F32Mul(F60, F32Add(F32Div(F32Sub(b, r), delta), F2))
    ELSE F32Mul(F60, F32Add(F32Div(F32Sub(r, g), delta), F4))

\* to_hsv: the sign handling of the returned hue, h.abs()
HueSign(h) == F32Abs(h)

to_hsv(color) ==
    LET r == F32Div(F32FromInt(color.r), F255)
        g == F32Div(F32FromInt(color.g), F255)
        b == F32Div(F32FromInt(color.b), F255)
        max == F32Max(F32Max(r, g), b)
        min == F32Min(F32Min(r, g), b)
        delta == F32Sub(max, min)
        h == HsvHue(r, g, b, max, delta)
        s == IF F32Eq(max, F0) THEN F0 ELSE F32Div(delta, max)
    IN [h |-> HueSign(h), s |-> s, v |-> max]

\* the digits of {:X}
HexDigits ==
    <<"0", "1", "2", "3", "4", "5", "6", "7",
      "8", "9", "A", "B", "C", "D", "E", "F">>

\* (mutant of FormatHex2: {:X}, no zero padding)
FormatHexUnpadded(n) ==
    IF n < 16 THEN <<HexDigits[n + 1]>>
    ELSE <<HexDigits[(n \div 16) + 1], HexDigits[(n % 16) + 1]>>

\* {:02X} of a u8: two uppercase digits, zero-padded
FormatHex2(n) == <<HexDigits[(n \div 16) + 1], HexDigits[(n % 16) + 1]>>

\* to_hex: the string as its sequence of bytes
to_hex(color) ==
    <<"#">> \o FormatHex2(color.r) \o FormatHex2(color.g) \o FormatHex2(color.b)

to_rgb(color) == <<color.r, color.g, color.b>>

(***************************************************************************)
(* Complements.                                                            *)
(***************************************************************************)
\* u8 subtraction: an underflow panics (debug build) or wraps (release)
U8Sub(a, b) ==
    IF a >= b THEN {[panic |-> FALSE, val |-> a - b]}
    ELSE {[panic |-> TRUE, val |-> 0], [panic |-> FALSE, val |-> a - b + 256]}

\* (mutant of Invert: the operands swapped, x - 255)
InvertSwapped(x) == U8Sub(x, U8Max)

\* 255 - x on u8
Invert(x) == U8Sub(U8Max, x)

\* the outcomes of rgb_complement: [panic, color]
rgb_complement(color) ==
    {[panic |-> r.panic \/ g.panic \/ b.panic,
      color |-> from_rgb(r.val, g.val, b.val)] :
        r \in Invert(color.r), g \in Invert(color.g), b \in Invert(color.b)}

\* (mutant of RotateHue: no reduction modulo 360)
RotateHueNoWrap(hue) == F32Add(hue, F180)

\* hsv_complement: let new_hue = (hue + 180.) % 360.
RotateHue(hue) == F32Rem(F32Add(hue, F180), F360)

\* hsv_complement: Color::from_hsv(new_hue, sat, val)
Rotated(t) == from_hsv(RotateHue(t.h), t.s, t.v)

hsv_complement(color) ==
    CHOOSE r \in {Rotated(arg1) : arg1 \in {to_hsv(color)}} : TRUE


(***************************************************************************)
(* from_hex.  A &str is its sequence of UTF-8 bytes: an ASCII character is *)
(* a one-character token, and the two bytes of a two-byte character        *)
(* (U+00E9) are the tokens "C3" and "A9".                                  *)
(***************************************************************************)
\* str::is_char_boundary: a slice index inside a character panics
IsCharBoundary(str, i) == i = 0 \/ i = Len(str) \/ str[i + 1] # "A9"

\* hex.trim_start_matches('#'): every leading '#' is removed
RECURSIVE trim_start_matches(_)
trim_start_matches(str) ==
    IF Len(str) > 0 /\ Head(str) = "#"
    THEN trim_start_matches(Tail(str))
    ELSE str

\* char::to_digit(16), -1 for no digit
ToDigit(ch) ==
    IF \E i \in 1..16 : HexDigits[i] = ch
    THEN (CHOOSE i \in 1..16 : HexDigits[i] = ch) - 1
    ELSE IF ch = "a" THEN 10 ELSE IF ch = "b" THEN 11
    ELSE IF ch = "c" THEN 12 ELSE IF ch = "d" THEN 13
    ELSE IF ch = "e" THEN 14 ELSE IF ch = "f" THEN 15
    ELSE -1

\* the digits of src as a number, -1 when one is no digit or the u8 overflows
RECURSIVE RadixDigits(_, _)
RadixDigits(digits, acc) ==
    IF Len(digits) = 0 THEN acc
    ELSE IF ToDigit(Head(digits)) < 0 THEN -1
    ELSE IF acc * 16 + ToDigit(Head(digits)) > U8Max THEN -1
    ELSE RadixDigits(Tail(digits), acc * 16 + ToDigit(Head(digits)))

\* u8::from_str_radix(src, 16), -1 for Err: a leading '+' is a sign, a
\* leading '-' is not one for an unsigned type
u8_from_str_radix(src) ==
    IF Len(src) = 0 THEN -1
    ELSE IF Len(src) = 1 /\ Head(src) \in {"+", "-"} THEN -1
    ELSE IF Head(src) = "+" THEN RadixDigits(Tail(src), 0)
    ELSE RadixDigits(src, 0)

ErrLength == [tag |-> "Err", msg |-> "Hex code must be 6 characters long"]
ErrDigits == [tag |-> "Err", msg |-> "Invalid hex code"]
Panic == [tag |-> "Panic"]
Ok(color) == [tag |-> "Ok", color |-> color]

\* from_hex: the parse of the pair hex[i..i+2] and of the pairs after it
RECURSIVE ParsePairs(_, _, _)
ParsePairs(hex, i, got) ==
    IF i = 6 THEN Ok(from_rgb(got[1], got[2], got[3]))
    ELSE IF ~IsCharBoundary(hex, i) \/ ~IsCharBoundary(hex, i + 2) THEN Panic
    ELSE IF u8_from_str_radix(SubSeq(hex, i + 1, i + 2)) < 0 THEN ErrDigits
    ELSE ParsePairs(hex, i + 2,
                    Append(got, u8_from_str_radix(SubSeq(hex, i + 1, i + 2))))

\* hex.len() != 6, in bytes
BadLength(hex) == Len(hex) # 6

from_hex(str) ==
    LET hex == trim_start_matches(str) IN
    IF BadLength(hex) THEN ErrLength
    ELSE ParsePairs(hex, 0, <<>>)


(***************************************************************************)
(* State.  The library specification SpecColor calls the functions of      *)
(* src/color.rs on a value; the specification Spec runs main of            *)
(* src/main.rs.  An Option is a sequence: None is <<>>, Some(x) is <<x>>.  *)
(***************************************************************************)
VARIABLES
    input,  \* SpecColor: the value the calls started from
    val,    \* SpecColor: the value the last call returned
    ops,    \* SpecColor: the functions called so far, in order
    args,   \* Spec: the command line, [rgb, hex, hsv] of Options
    pc,     \* Spec: where main is
    color,  \* Spec: the Option of main's `color`
    out     \* Spec: the lines printed to standard output

vars == <<input, val, ops, args, pc, color, out>>

None == <<>>
Some(x) == <<x>>

(***************************************************************************)
(* Inputs.                                                                 *)
(***************************************************************************)
Channels == {(i * U8Max) \div ChanLevels : i \in 0..ChanLevels}

Colors == {from_rgb(r, g, b) : r \in Channels, g \in Channels, b \in Channels}

\* saturations and values in [0,1]
Units ==
    {F32Of(n, UnitDen) : n \in 0..UnitDen}
        \cup {F32Of(2, 19), F32Of(1, 6), F32Of(16777215, 16777216)}

\* hues inside and outside [0,360], the sextant boundaries among them
Hues ==
    {F32FromInt(k * HueStep) : k \in -1..((360 \div HueStep) + 1)}
        \cup {F32FromInt(60 * k) : k \in 0..6}
        \cup {F32Of(-1, 2), F32Of(721, 2), F32Of(119, 2)}

HsvInputs == {[h |-> h, s |-> s, v |-> v] : h \in Hues, s \in Units, v \in Units}

\* the pieces hex inputs are made of
Chunks ==
    {<<"#">>, <<"F", "F">>, <<"F", "F", "a", "0">>, <<"G", "G">>,
     <<"+", "F">>, <<"0">>, <<"-", "1">>, <<"C3", "A9">>}

RECURSIVE HexStrings(_)
HexStrings(n) ==
    IF n = 0 THEN {<<>>}
    ELSE HexStrings(n - 1) \cup {str \o c : str \in HexStrings(n - 1), c \in Chunks}

HexInputs == HexStrings(MaxChunks)

(***************************************************************************)
(* SpecColor: calls of the functions of src/color.rs.                      *)
(***************************************************************************)
Value(kind, v) == [kind |-> kind, v |-> v]

NoMain == args = None /\ pc = "library" /\ color = None /\ out = <<>>

InitColor ==
    /\ \/ \E c \in Colors : input = Value("color", c)
       \/ \E t \in HsvInputs : input = Value("hsv", t)
       \/ \E str \in HexInputs : input = Value("str", str)
    /\ val = input
    /\ ops = <<>>
    /\ NoMain

Call(name, result) ==
    /\ Len(ops) < MaxOps
    /\ val' = result
    /\ ops' = Append(ops, name)
    /\ UNCHANGED <<input, args, pc, color, out>>

CallToHsv ==
    /\ val.kind = "color"
    /\ Call("to_hsv", Value("hsv", to_hsv(val.v)))

CallFromHsv ==
    /\ val.kind = "hsv"
    /\ Call("from_hsv", Value("color", from_hsv(val.v.h, val.v.s, val.v.v)))

CallToHex ==
    /\ val.kind = "color"
    /\ Call("to_hex", Value("str", to_hex(val.v)))

\* the Result of from_hex: the colour of an Ok, the Err, or a panic
ResultValue(res) ==
    IF res.tag = "Ok" THEN Value("color", res.color)
    ELSE IF res.tag = "Err" THEN Value("err", res.msg)
    ELSE Value("panic", "")

CallFromHex ==
    /\ val.kind = "str"
    /\ Call("from_hex", ResultValue(from_hex(val.v)))

CallRgbComplement ==
    /\ val.kind = "color"
    /\ \E res \in rgb_complement(val.v) :
          Call("rgb_complement",
               IF res.panic THEN Value("panic", "") ELSE Value("color", res.color))

CallHsvComplement ==
    /\ val.kind = "color"
    /\ Call("hsv_complement", Value("color", hsv_complement(val.v)))

NextColor ==
    \/ CallToHsv
    \/ CallFromHsv
    \/ CallToHex
    \/ CallFromHex
    \/ CallRgbComplement
    \/ CallHsvComplement

SpecColor == InitColor /\ [][NextColor]_vars


(***************************************************************************)
(* Spec: main of src/main.rs.                                              *)
(***************************************************************************)
\* an argument of --rgb is its number; u8::from_str rejects what no u8 holds
RgbArgs == {<<255, 0, 51>>, <<0, 204, 0>>, <<256, 0, 0>>}

\* an argument of --hsv is the decimal of n/d, or text f32::from_str rejects
HsvToken(n, d) == [ok |-> TRUE, n |-> n, d |-> d]
BadToken == [ok |-> FALSE, n |-> 0, d |-> 1]
HsvArgs ==
    {<<HsvToken(200, 1), HsvToken(1, 2), HsvToken(1, 1)>>,
     <<HsvToken(400, 1), HsvToken(0, 1), HsvToken(1, 1)>>,
     <<HsvToken(60, 1), BadToken, HsvToken(1, 1)>>}

Option(S) == {None} \cup {Some(x) : x \in S}

NoLibrary == input = None /\ val = None /\ ops = <<>>

Init ==
    /\ args \in [rgb : Option(RgbArgs), hex : Option(HexInputs),
                 hsv : Option(HsvArgs)]
    /\ pc = "start"
    /\ color = None
    /\ out = <<>>
    /\ NoLibrary

\* values.map(|v| u8::from_str(v).unwrap()).collect()
ParseRgb(values) ==
    IF \E i \in 1..3 : values[i] \notin 0..U8Max THEN Panic
    ELSE Ok(from_rgb(values[1], values[2], values[3]))

\* Color::from_hex(hex).expect("Invalid HEX value")
ExpectHex(res) == IF res.tag = "Ok" THEN res ELSE Panic

\* values.map(|v| f32::from_str(v).unwrap()).collect(), then from_hsv
ParseHsv(values) ==
    IF \E i \in 1..3 : ~values[i].ok THEN Panic
    ELSE Ok(from_hsv(F32Of(values[1].n, values[1].d),
                     F32Of(values[2].n, values[2].d),
                     F32Of(values[3].n, values[3].d)))

\* the if / else if chain that selects the input form, first match first
SelectColor(a) ==
    IF a.rgb # None THEN ParseRgb(a.rgb[1])
    ELSE IF a.hex # None THEN ExpectHex(from_hex(a.hex[1]))
    ELSE IF a.hsv # None THEN ParseHsv(a.hsv[1])
    ELSE [tag |-> "NoInput"]

\* let color = ...: a colour, a panic, or the early return of no input
Construct ==
    /\ pc = "start"
    /\ \E res \in {SelectColor(args)} :
          /\ pc' = IF res.tag = "Ok" THEN "constructed"
                   ELSE IF res.tag = "Panic" THEN "panicked"
                   ELSE "returned"
          /\ color' = IF res.tag = "Ok" THEN Some(res.color) ELSE None
    /\ UNCHANGED <<args, out, input, val, ops>>

\* impl Display for Color
Display(c) == <<"RGB", c.r, c.g, c.b>>

\* println!("Input Color: {}", color)
PrintInput ==
    /\ pc = "constructed"
    /\ out' = Append(out, <<"Input Color">> \o Display(color[1]))
    /\ pc' = "printed_input"
    /\ UNCHANGED <<args, color, input, val, ops>>

\* println!(RGB Complement, rgb_complement(color.clone()))
PrintRgbComplement ==
    /\ pc = "printed_input"
    /\ \E res \in rgb_complement(color[1]) :
          IF res.panic
          THEN pc' = "panicked" /\ out' = out
          ELSE /\ pc' = "printed_rgb"
               /\ out' = Append(out, <<"Complementary Color (RGB Complement)">>
                                       \o Display(res.color))
    /\ UNCHANGED <<args, color, input, val, ops>>

\* println!(HSV Complement, hsv_complement(color))
PrintHsvComplement ==
    /\ pc = "printed_rgb"
    /\ out' = Append(out, <<"Complementary Color (HSV Complement)">>
                            \o Display(hsv_complement(color[1])))
    /\ pc' = "done"
    /\ UNCHANGED <<args, color, input, val, ops>>

Next ==
    \/ Construct
    \/ PrintInput
    \/ PrintRgbComplement
    \/ PrintHsvComplement

Spec == Init /\ [][Next]_vars


(***************************************************************************)
(* Vocabulary of the properties.                                           *)
(***************************************************************************)
Abs(i) == IF i < 0 THEN -i ELSE i

\* every channel of c is within 1 of the same channel of d
Within1(c, d) ==
    Abs(c.r - d.r) <= 1 /\ Abs(c.g - d.g) <= 1 /\ Abs(c.b - d.b) <= 1

Max3(c) == CHOOSE x \in {c.r, c.g, c.b} : \A y \in {c.r, c.g, c.b} : y <= x
Min3(c) == CHOOSE x \in {c.r, c.g, c.b} : \A y \in {c.r, c.g, c.b} : x <= y

Black == [r |-> 0, g |-> 0, b |-> 0]

InUnit(x) == F32Le(F0, x) /\ F32Le(x, F1)
InHueDomain(h) == F32Le(F0, h) /\ F32Le(h, F360)

\* the library was called on a colour, with exactly these calls
OnColor(calls) == input.kind = "color" /\ ops = calls
OnHsv(calls) == input.kind = "hsv" /\ ops = calls
OnStr(calls) == input.kind = "str" /\ ops = calls

(***************************************************************************)
(* C1: RGB -> HSV -> RGB round trip. For every colour, from_hsv of the     *)
(* triple to_hsv returns is within 1 of the colour on every channel.       *)
(* The code breaks it: see C1_RoundTrip's counterexample, a red-dominant   *)
(* colour with green < blue, whose negative hue to_hsv mirrors with abs()  *)
(* instead of wrapping by 360.                                             *)
(***************************************************************************)
C1_RoundTrip ==
    OnColor(<<"to_hsv", "from_hsv">>) => Within1(val.v, input.v)

(***************************************************************************)
(* C2: HSV complement near-involution. For every colour c,                 *)
(* hsv_complement(hsv_complement(c)) is within 1 of c on every channel.    *)
(***************************************************************************)
C2_NearInvolution ==
    OnColor(<<"hsv_complement", "hsv_complement">>) => Within1(val.v, input.v)


(***************************************************************************)
(* C3: from_hex returns a colour exactly when the input, after one         *)
(* optional leading '#' is removed, is exactly 6 characters forming three  *)
(* 2-digit base-16 pairs (the channels, in order, either case); any other  *)
(* input gives the length error when the remainder is not 6 characters     *)
(* and otherwise the invalid-digits error.                                 *)
(***************************************************************************)
\* the claim's reading of the input
\* (a character is counted as the code counts it, a byte of the string)
StripOne(str) == IF Len(str) > 0 /\ Head(str) = "#" THEN Tail(str) ELSE str
CharCount(str) == Len(str)
IsHexDigit(ch) ==
    ch \in {"0", "1", "2", "3", "4", "5", "6", "7", "8", "9",
            "A", "B", "C", "D", "E", "F", "a", "b", "c", "d", "e", "f"}
WellFormedHex(str) ==
    /\ CharCount(StripOne(str)) = 6
    /\ \A i \in 1..Len(StripOne(str)) : IsHexDigit(StripOne(str)[i])
PairValue(str, i) == 16 * ToDigit(str[i]) + ToDigit(str[i + 1])

\* C3: from_hex succeeds exactly on the well-formed inputs, with the
\* length error or the invalid-digits error on every other input
C3_HexValidation ==
    OnStr(<<"from_hex">>) =>
        LET rest == StripOne(input.v) IN
        IF CharCount(rest) # 6
        THEN val.kind = "err" /\ val.v = ErrLength.msg
        ELSE IF WellFormedHex(input.v)
        THEN /\ val.kind = "color"
             /\ val.v = from_rgb(PairValue(rest, 1), PairValue(rest, 3),
                                 PairValue(rest, 5))
        ELSE val.kind = "err" /\ val.v = ErrDigits.msg

(***************************************************************************)
(* C4: out-of-domain hue.  As claimed: for every hue outside [0,360] and   *)
(* s, v in [0,1], from_hsv returns black (C4_Black, refuted).  As amended  *)
(* (C4_Grey): from_hsv takes the wildcard arm and returns the grey         *)
(* (k,k,k), k = round((v - v*s) * 255), since the match value is still     *)
(* added to the zero components; that is black when s = 1 or v = 0.        *)
(***************************************************************************)
OutOfDomainCall ==
    /\ OnHsv(<<"from_hsv">>)
    /\ ~InHueDomain(input.v.h)
    /\ InUnit(input.v.s)
    /\ InUnit(input.v.v)

\* C4 as claimed: an out-of-domain hue gives black
C4_Black == OutOfDomainCall => val.v = Black

\* C4 as amended: an out-of-domain hue gives the grey of the match value
C4_Grey ==
    OutOfDomainCall =>
        LET k == F32RoundInt(F32Mul(F32Sub(input.v.v,
                                           F32Mul(input.v.v, input.v.s)), F255))
        IN /\ Sextant(input.v.h) = 0
           /\ val.v = from_rgb(k, k, k)
           /\ (F32Eq(input.v.s, F1) \/ F32Eq(input.v.v, F0)) => val.v = Black

C4_Witness == OutOfDomainCall /\ val.v.r > 0 /\ F32Lt(F0, input.v.s)

(***************************************************************************)
(* C5: hex round trip.  to_hex renders '#' and six uppercase zero-padded   *)
(* hex digits, two a channel, and from_hex of it is the colour again.      *)
(***************************************************************************)
UpperDigitValue(ch) ==
    CHOOSE d \in 0..15 :
        <<"0", "1", "2", "3", "4", "5", "6", "7",
          "8", "9", "A", "B", "C", "D", "E", "F">>[d + 1] = ch

IsUpperHex(ch) ==
    ch \in {"0", "1", "2", "3", "4", "5", "6", "7", "8", "9",
            "A", "B", "C", "D", "E", "F"}

\* C5: to_hex is '#' and six uppercase zero-padded digits, and from_hex
\* of it is the colour
C5_HexRoundTrip ==
    /\ OnColor(<<"to_hex">>) =>
          /\ val.kind = "str"
          /\ Len(val.v) = 7
          /\ val.v[1] = "#"
          /\ \A i \in 2..7 : IsUpperHex(val.v[i])
          /\ 16 * UpperDigitValue(val.v[2]) + UpperDigitValue(val.v[3]) = input.v.r
          /\ 16 * UpperDigitValue(val.v[4]) + UpperDigitValue(val.v[5]) = input.v.g
          /\ 16 * UpperDigitValue(val.v[6]) + UpperDigitValue(val.v[7]) = input.v.b
    /\ OnColor(<<"to_hex", "from_hex">>) =>
          val.kind = "color" /\ val.v = input.v

C5_Witness ==
    /\ OnColor(<<"to_hex", "from_hex">>)
    /\ val.kind = "color"
    /\ input.v.r < 16
    /\ input.v.g > 160
    /\ input.v.b \notin {0, 255}

(***************************************************************************)
(* C6: rgb_complement never fails, replaces each channel x by 255 - x      *)
(* without underflow, and applied twice gives the colour back exactly.     *)
(***************************************************************************)
\* C6: rgb_complement gives 255 - x on every channel, never fails, and is
\* an involution
C6_RgbComplement ==
    /\ OnColor(<<"rgb_complement">>) =>
          /\ val.kind = "color"
          /\ val.v.r = 255 - input.v.r /\ val.v.r \in 0..255
          /\ val.v.g = 255 - input.v.g /\ val.v.g \in 0..255
          /\ val.v.b = 255 - input.v.b /\ val.v.b \in 0..255
    /\ OnColor(<<"rgb_complement", "rgb_complement">>) =>
          val.kind = "color" /\ val.v = input.v

C6_Witness ==
    /\ OnColor(<<"rgb_complement", "rgb_complement">>)
    /\ val.kind = "color"
    /\ input.v.r = 255
    /\ input.v.g = 0
    /\ input.v.b \notin {0, 255}


(***************************************************************************)
(* C7: in every run of main given a malformed HEX input, whatever other    *)
(* input forms come with it, the run aborts and no output line is ever     *)
(* printed.                                                                *)
(***************************************************************************)
C7_MalformedHexAborts ==
    (args.hex # None /\ ~WellFormedHex(args.hex[1])) =>
        out = <<>> /\ pc # "done"

(***************************************************************************)
(* C8: sextant boundaries are inclusive.  For s, v in [0,1], hue 0 and hue *)
(* 360 take a red-dominant arm (the first, the sixth) and give the same    *)
(* colour; every boundary hue 60..300 is handled by an arm; s = v = 1      *)
(* gives (255,0,0).  As claimed (C8_RedExact, refuted) the red channel is  *)
(* round(v * 255); as amended (C8_Boundaries) it is within 1 of it: it is  *)
(* round((c + m) * 255) with c = v*s and m = v - c rounded to f32, and     *)
(* c + m can differ from v in the last bit.                                *)
(***************************************************************************)
BoundaryCall ==
    /\ OnHsv(<<"from_hsv">>)
    /\ InUnit(input.v.s)
    /\ InUnit(input.v.v)
    /\ \E k \in 0..6 : F32Eq(input.v.h, F32FromInt(60 * k))

EndCall == BoundaryCall /\ (F32Eq(input.v.h, F0) \/ F32Eq(input.v.h, F360))

\* round(v * 255)
RoundedValue == F32RoundInt(F32Mul(input.v.v, F255))

\* what C8 says of everything but the red channel
BoundariesInclusive ==
    /\ BoundaryCall => Sextant(input.v.h) # 0
    /\ EndCall =>
          /\ Sextant(input.v.h) \in {1, 6}
          /\ Sextant(F0) = 1 /\ Sextant(F360) = 6
          /\ val.v = from_hsv(F0, input.v.s, input.v.v)
          /\ val.v = from_hsv(F360, input.v.s, input.v.v)
          /\ val.v.r >= val.v.g /\ val.v.r >= val.v.b
          /\ (F32Eq(input.v.s, F1) /\ F32Eq(input.v.v, F1)) =>
                val.v = from_rgb(255, 0, 0)

\* C8 as claimed: boundaries are inclusive and red is round(v * 255)
C8_RedExact ==
    /\ BoundariesInclusive
    /\ EndCall => val.v.r = RoundedValue

\* C8 as amended: boundaries are inclusive and red is within 1 of
\* round(v * 255)
C8_Boundaries ==
    /\ BoundariesInclusive
    /\ EndCall => Abs(val.v.r - RoundedValue) <= 1

C8_Witness ==
    /\ EndCall
    /\ F32Eq(input.v.h, F360)
    /\ val.v.r # RoundedValue
    /\ val.v.r > val.v.g

(***************************************************************************)
(* C9: hsv_complement never reaches the wildcard arm and keeps the largest *)
(* and the smallest channel.  For every colour the hue of to_hsv is in     *)
(* [0,360), the rotated hue (hue + 180) mod 360 is in [0,360), and the     *)
(* result has the colour's largest and smallest channel values.            *)
(***************************************************************************)
InHalfOpenCircle(h) == F32Le(F0, h) /\ F32Lt(h, F360)

\* C9: hues stay in [0,360), no wildcard arm, extremes kept
C9_ComplementKeepsExtremes ==
    OnColor(<<"hsv_complement">>) =>
        /\ InHalfOpenCircle(to_hsv(input.v).h)
        /\ InHalfOpenCircle(RotateHue(to_hsv(input.v).h))
        /\ Sextant(RotateHue(to_hsv(input.v).h)) # 0
        /\ Max3(val.v) = Max3(input.v)
        /\ Min3(val.v) = Min3(input.v)

C9_Witness ==
    /\ OnColor(<<"hsv_complement">>)
    /\ F32Lt(F180, to_hsv(input.v).h)
    /\ F32Lt(RotateHue(to_hsv(input.v).h), F180)
    /\ Max3(input.v) > Min3(input.v)
    /\ Min3(input.v) > 0

(***************************************************************************)
(* C10: channel range on the HSV path.  For every hue in [0,360] and s, v  *)
(* in [0,1] the three values round((component + match) * 255) of from_hsv  *)
(* are in [0,255] before the cast, so the cast changes nothing.            *)
(***************************************************************************)
\* the triple from_hsv was called on: an input, or what to_hsv returned
HsvArgument == IF input.kind = "hsv" THEN input.v ELSE to_hsv(input.v)

InDomainCall ==
    /\ OnHsv(<<"from_hsv">>) \/ OnColor(<<"to_hsv", "from_hsv">>)
    /\ InHueDomain(HsvArgument.h)
    /\ InUnit(HsvArgument.s)
    /\ InUnit(HsvArgument.v)

\* C10: the rounded values of an in-domain call are in [0,255]
C10_ChannelRange ==
    InDomainCall =>
        LET t == from_hsv_rounded(HsvArgument.h, HsvArgument.s, HsvArgument.v)
        IN /\ \A i \in 1..3 : t[i] >= 0 /\ t[i] <= 255
           /\ val.v = from_rgb(t[1], t[2], t[3])

C10_Witness ==
    /\ InDomainCall
    /\ OnHsv(<<"from_hsv">>)
    /\ F32Eq(input.v.v, F1)
    /\ F32Lt(F0, input.v.s)
    /\ Sextant(input.v.h) = 3
    /\ val.v.g = 255
    /\ val.v.b \notin {0, 255}

====
